---------------------------- MODULE Spec2Model ----------------------------
(***************************************************************************)
(* Model of the news-verification scorer of ai-news-analyzer:              *)
(*   features/paste_news.py   _predict_proba_ensemble,                     *)
(*                            _assess_content_quality,                     *)
(*                            run_paste_news_feature                       *)
(*   utils/helpers.py         is_opinion_piece,                            *)
(*                            normalize_factcheck_rating                   *)
(*   utils/models.py          predict_proba_content_only                   *)
(*   features/news_trends.py  the module cache of the trends dashboard     *)
(*   features/fact_check.py   fact_check_claims_long_article               *)
(*                                                                         *)
(* Arithmetic.  The code computes with Python floats.  The model computes  *)
(* the same expressions in exact fixed-point arithmetic: a probability is  *)
(* an integer in 0..One, One standing for 1.0.  One is chosen so that      *)
(* every product, mean and halving the code performs on the modelled       *)
(* inputs is an exact integer, so no rounding happens in the model; the    *)
(* last-bit rounding of IEEE doubles is outside the model.                 *)
(*                                                                         *)
(* Text.  A string is modelled as a sequence of literal pieces (chunks)     *)
(* together with what the code's measurements find in each piece.          *)
(***************************************************************************)
EXTENDS Integers, Sequences, FiniteSets

VARIABLES
    pc,                    \* position of the running handler
    title_text,            \* run_paste_news_feature: stripped title
    user_val,              \* run_paste_news_feature: stripped text-area value
    combined_text,         \* run_paste_news_feature / text argument of the scorer
    effective_source_url,  \* run_paste_news_feature: URL handed to the gate
    base_proba,            \* _predict_proba_ensemble local
    zs_proba,              \* _predict_proba_ensemble local
    quality_score,         \* _predict_proba_ensemble local
    indicator_list,        \* _assess_content_quality: quality_indicators
    proba,                 \* value returned by _predict_proba_ensemble
    verdict,               \* run_paste_news_feature local
    verdict_confidence,    \* run_paste_news_feature local
    confidence_percentage, \* run_paste_news_feature local
    calls,                 \* functions and collaborators called by the handler
    shown,                 \* what the handler has put on the page
    content_text,          \* run_paste_news_feature local
    lexical_out,           \* what the lexical classifier answered
    zeroshot_out,          \* what the zero-shot classifier answered
    metrics,               \* values of the three st.metric widgets shown
    content_lexical_out,   \* predict_proba_content_only: the lexical answer
    content_zeroshot_out,  \* predict_proba_content_only: the zero-shot answer
    content_base_proba,    \* predict_proba_content_only local base_proba
    pz,                    \* predict_proba_content_only local
    returned,              \* value returned by predict_proba_content_only
    now,                   \* datetime.now(), in clock units
    cache_key,             \* run_news_trends_feature local
    trends_cache,          \* news_trends.py module global _trends_cache
    keys_to_remove,        \* _clear_old_cache local
    cached_data,           \* run_news_trends_feature local
    articles,              \* run_news_trends_feature local
    renders,               \* renders of the dashboard so far
    article,               \* fact_check_claims_long_article argument text
    sentences,             \* fact_check_claims_long_article local
    max_claims,            \* fact_check_claims_long_article argument
    selected_claims,       \* fact_check_claims_long_article local
    results,               \* fact_check_claims_long_article local
    searches,              \* searches made so far, in order
    all_hits,              \* fact_check_claims_long_article local
    google_hits,           \* fact_check_claims_long_article local
    rating,                \* normalize_factcheck_rating argument
    normalized             \* value returned by normalize_factcheck_rating

\* Locals of run_paste_news_feature and of the scorer it calls.
page_locals == << title_text, user_val, combined_text, effective_source_url,
                  base_proba, zs_proba, quality_score, proba, verdict,
                  verdict_confidence, confidence_percentage, calls, shown,
                  content_text, lexical_out, zeroshot_out, metrics,
                  indicator_list >>

\* Locals of predict_proba_content_only.
content_vars == << content_lexical_out, content_zeroshot_out,
                   content_base_proba, pz, returned >>

\* The clock, the module cache of news_trends.py and the locals of a render.
trends_vars == << now, cache_key, trends_cache, keys_to_remove, cached_data,
                  articles, renders >>

\* Arguments and locals of fact_check_claims_long_article.
factcheck_vars == << article, sentences, max_claims, selected_claims,
                     results, searches, all_hits, google_hits >>

\* Argument and result of normalize_factcheck_rating.
rating_vars == << rating, normalized >>

\* Everything outside the paste-news page.
other_vars == << content_vars, trends_vars, factcheck_vars, rating_vars >>

vars == << pc, page_locals, other_vars >>

---------------------------------------------------------------------------
(* Bounds of the model. *)

\* Resolution of the probability grid: signals are k/Steps, k in 0..Steps.
Steps == 20

\* Fixed-point unit: One stands for 1.0.  42000 = 2 * 10 * 2100 makes the
\* tenths weights, the halving and the means over 6 or 7 indicators exact.
One == 42000 * Steps

\* n hundredths, as a fixed-point value (0.7 is Pct(70)).
Pct(n) == (n * One) \div 100

Grid == { k * (One \div Steps) : k \in 0..Steps }

\* Marks a local that has not been assigned.
Unset == 0 - 1

\* Resolution of the scores the two external classifiers may answer in the
\* runs that go through them: k/SignalSteps, k in 0..SignalSteps.
SignalSteps == 2

Signals == { k * (One \div SignalSteps) : k \in 0..SignalSteps }

\* Longest title, pasted text and fetched page, in characters, and the most
\* whitespace around a text handed to the scorer directly.
MaxTitleLen == 8

MaxBodyLen == 18

MaxPageLen == 8

MaxPad == 1

\* Most path segments of a URL.
MaxSegments == 2

\* Most pieces of a text, and most path segments of a URL, handed to
\* is_opinion_piece directly.
MaxOpinionChunks == 3

MaxOpinionSegments == 3

\* Most pieces, after an optional run of repeated words, of a text handed
\* to _assess_content_quality directly.
MaxQualityChunks == 3

---------------------------------------------------------------------------
(* _predict_proba_ensemble, steps 4 and 5: the combiner. *)

abs(x) == IF x < 0 THEN 0 - x ELSE x

min(a, b) == IF a <= b THEN a ELSE b

max(a, b) == IF a >= b THEN a ELSE b

model_agreement(base, zs) == abs(base - zs)

\* Variants of ensemble_proba with one slip each: the threshold made
\* inclusive, the comparison inverted, and P(fake) weighed for P(real).
ensemble_proba_inclusive(base, zs, quality) ==
    IF model_agreement(base, zs) <= Pct(20)
    THEN (7 * base + 3 * zs) \div 10
    ELSE (4 * base + 3 * zs + 3 * quality) \div 10

ensemble_proba_inverted(base, zs, quality) ==
    IF model_agreement(base, zs) > Pct(20)
    THEN (7 * base + 3 * zs) \div 10
    ELSE (4 * base + 3 * zs + 3 * quality) \div 10

ensemble_proba_of_fake(base, zs, quality) ==
    IF model_agreement(base, zs) < Pct(20)
    THEN (7 * (One - base) + 3 * zs) \div 10
    ELSE (4 * (One - base) + 3 * zs + 3 * quality) \div 10


ensemble_proba(base, zs, quality) ==
    IF model_agreement(base, zs) < Pct(20)
    THEN (7 * base + 3 * zs) \div 10
    ELSE (4 * base + 3 * zs + 3 * quality) \div 10

\* Variant of final_proba that returns the ensemble without averaging it
\* with the quality score.
final_proba_ensemble_only(base, zs, quality) ==
    ensemble_proba(base, zs, quality)


final_proba(base, zs, quality) ==
    (ensemble_proba(base, zs, quality) + quality) \div 2

\* Variant of clamp that returns the value as it is.
clamp_missing(p) == p


clamp(p) == min(Pct(99), max(Pct(1), p))

Combiner(base, zs, quality) == clamp(final_proba(base, zs, quality))

---------------------------------------------------------------------------
(* run_paste_news_feature: verdict banding and display confidence. *)

\* Variants of Banding: every bound exclusive; the Uncertain band cut at 0.5.
Banding_exclusive(p) ==
    IF p > Pct(70)
    THEN [verdict |-> "Likely Real", verdict_confidence |-> "High"]
    ELSE IF p > Pct(55)
    THEN [verdict |-> "Possibly Real", verdict_confidence |-> "Medium"]
    ELSE IF p > Pct(45)
    THEN [verdict |-> "Uncertain", verdict_confidence |-> "Low"]
    ELSE IF p > Pct(30)
    THEN [verdict |-> "Possibly Fake", verdict_confidence |-> "Medium"]
    ELSE [verdict |-> "Likely Fake", verdict_confidence |-> "High"]

Banding_cut_at_half(p) ==
    IF p >= Pct(70)
    THEN [verdict |-> "Likely Real", verdict_confidence |-> "High"]
    ELSE IF p >= Pct(55)
    THEN [verdict |-> "Possibly Real", verdict_confidence |-> "Medium"]
    ELSE IF p >= Pct(50)
    THEN [verdict |-> "Uncertain", verdict_confidence |-> "Low"]
    ELSE IF p >= Pct(30)
    THEN [verdict |-> "Possibly Fake", verdict_confidence |-> "Medium"]
    ELSE [verdict |-> "Likely Fake", verdict_confidence |-> "High"]


\* The if/elif chain of lines 226-245: one branch sets both labels.
\* Variant of Banding whose Uncertain band reaches from 0.40 to 0.60.
Banding_wide_uncertain(p) ==
    IF p >= Pct(70)
    THEN [verdict |-> "Likely Real", verdict_confidence |-> "High"]
    ELSE IF p >= Pct(60)
    THEN [verdict |-> "Possibly Real", verdict_confidence |-> "Medium"]
    ELSE IF p >= Pct(40)
    THEN [verdict |-> "Uncertain", verdict_confidence |-> "Low"]
    ELSE IF p >= Pct(30)
    THEN [verdict |-> "Possibly Fake", verdict_confidence |-> "Medium"]
    ELSE [verdict |-> "Likely Fake", verdict_confidence |-> "High"]


Banding(p) ==
    IF p >= Pct(70)
    THEN [verdict |-> "Likely Real", verdict_confidence |-> "High"]
    ELSE IF p >= Pct(55)
    THEN [verdict |-> "Possibly Real", verdict_confidence |-> "Medium"]
    ELSE IF p >= Pct(45)
    THEN [verdict |-> "Uncertain", verdict_confidence |-> "Low"]
    ELSE IF p >= Pct(30)
    THEN [verdict |-> "Possibly Fake", verdict_confidence |-> "Medium"]
    ELSE [verdict |-> "Likely Fake", verdict_confidence |-> "High"]

\* Variant of display_confidence that does not mirror the low half.
display_confidence_unmirrored(p) == p


display_confidence(p) == IF p > Pct(50) THEN p ELSE One - p

\* int(x) truncates; display_confidence is never negative, so it floors.
ConfidencePercentage(p) == (display_confidence(p) * 100) \div One

---------------------------------------------------------------------------
(* Strings.  A text is whitespace followed by chunks joined by single      *)
(* spaces.  A chunk is a literal piece of text; ChunkInfo records what the *)
(* code's measurements (len, split, the regular expressions, the phrase    *)
(* lists) find in that literal.                                            *)

Chunks ==
    { "ok", "Mayor resigned.", "opinion", "\\boped\\b",
      "i think", "i feel", "shocking", "sources say" }

\* The full stop that ". ".join glues to the end of the piece before it.
FullStop == "."

\* Further literals, for the texts handed to _assess_content_quality and to
\* is_opinion_piece directly.
QualityChunks ==
    { "Mayor resigned.", "Alice met Bob in Paris today",
      "On 12/05/2024 'sources say'", "sources say", "it's", "42",
      "shocking truth", "SHOCKING", "amazing", "incredible" }

OpinionChunks ==
    { "ok", "I think", "i feel", "personally", "opinion", "\\boped\\b",
      "ok x39", "ok x40" }

\* "ok xN" stands for the word ok written N times with single spaces
\* between; the word counts sit on both sides of every threshold of the
\* length test (paste_news.py 77-82), of the words-per-sentence test once
\* a two-word sentence is added (87), and of first_40 (helpers.py 71).
Repeated ==
    { "ok x7", "ok x8", "ok x19", "ok x20", "ok x28", "ok x29", "ok x39",
      "ok x40", "ok x49", "ok x50", "ok x2000", "ok x2001", "ok x3000",
      "ok x3001" }

RepeatCount(c) ==
    CASE c = "ok x7" -> 7 [] c = "ok x8" -> 8 [] c = "ok x19" -> 19
      [] c = "ok x20" -> 20 [] c = "ok x28" -> 28 [] c = "ok x29" -> 29
      [] c = "ok x39" -> 39 [] c = "ok x40" -> 40 [] c = "ok x49" -> 49
      [] c = "ok x50" -> 50 [] c = "ok x2000" -> 2000
      [] c = "ok x2001" -> 2001 [] c = "ok x3000" -> 3000
      [] c = "ok x3001" -> 3001

NoInfo ==
    [ chars |-> 0, words |-> 0, terminators |-> 0, ends_terminator |-> FALSE,
      source |-> FALSE, quotes |-> FALSE, dates |-> FALSE, numbers |-> FALSE,
      proper_nouns |-> 0, red_flag |-> FALSE, emotional |-> {},
      subjective |-> {}, pattern |-> FALSE, marker_word |-> FALSE ]

\* chars, words:  len and len(split()) of the literal
\* terminators:   matches of [.!?]+          proper_nouns: matches of the
\*                                           capitalised-token expression
\* emotional, subjective: the words / phrases of the two lists it contains
\* pattern:       the literal matches is_opinion_piece's compiled pattern
\*                (helpers.py 72), which asks for the two characters \b on
\*                both sides of a marker
\* marker_word:   the literal holds a marker as a whole word
\* FullStop has no character count of its own: the space that separates it
\* from the piece before it in the chunk list stands for it.
ChunkInfo(c) ==
    CASE c = "ok" -> [NoInfo EXCEPT !.chars = 2, !.words = 1]
      [] c = "Mayor resigned." ->
            [NoInfo EXCEPT !.chars = 15, !.words = 2, !.terminators = 1,
                           !.ends_terminator = TRUE, !.proper_nouns = 1]
      [] c = "opinion" ->
            [NoInfo EXCEPT !.chars = 7, !.words = 1, !.marker_word = TRUE]
      [] c = "\\boped\\b" ->
            [NoInfo EXCEPT !.chars = 8, !.words = 1, !.pattern = TRUE]
      [] c = "i think" ->
            [NoInfo EXCEPT !.chars = 7, !.words = 2,
                           !.subjective = {"i think"}]
      [] c = "i feel" ->
            [NoInfo EXCEPT !.chars = 6, !.words = 2,
                           !.subjective = {"i feel"}]
      [] c = "shocking" ->
            [NoInfo EXCEPT !.chars = 8, !.words = 1,
                           !.emotional = {"shocking"}]
      [] c = "sources say" ->
            [NoInfo EXCEPT !.chars = 11, !.words = 2, !.source = TRUE]
      [] c = FullStop ->
            [NoInfo EXCEPT !.terminators = 1, !.ends_terminator = TRUE]
      [] c = "mayor resigned." ->
            [NoInfo EXCEPT !.chars = 15, !.words = 2, !.terminators = 1,
                           !.ends_terminator = TRUE]
      [] c = "Alice met Bob in Paris today" ->
            [NoInfo EXCEPT !.chars = 28, !.words = 6, !.proper_nouns = 3]
      [] c = "alice met bob in paris today" ->
            [NoInfo EXCEPT !.chars = 28, !.words = 6]
      [] c = "On 12/05/2024 'sources say'" ->
            [NoInfo EXCEPT !.chars = 27, !.words = 4, !.proper_nouns = 1,
                           !.dates = TRUE, !.numbers = TRUE,
                           !.quotes = TRUE, !.source = TRUE]
      [] c = "on 12/05/2024 'sources say'" ->
            [NoInfo EXCEPT !.chars = 27, !.words = 4, !.dates = TRUE,
                           !.numbers = TRUE, !.quotes = TRUE,
                           !.source = TRUE]
      [] c = "it's" ->
            [NoInfo EXCEPT !.chars = 4, !.words = 1, !.quotes = TRUE]
      [] c = "42" ->
            [NoInfo EXCEPT !.chars = 2, !.words = 1, !.numbers = TRUE]
      [] c = "shocking truth" ->
            [NoInfo EXCEPT !.chars = 14, !.words = 2, !.red_flag = TRUE,
                           !.emotional = {"shocking"}]
      [] c = "SHOCKING" -> [NoInfo EXCEPT !.chars = 8, !.words = 1]
      [] c = "amazing" ->
            [NoInfo EXCEPT !.chars = 7, !.words = 1,
                           !.emotional = {"amazing"}]
      [] c = "incredible" ->
            [NoInfo EXCEPT !.chars = 10, !.words = 1,
                           !.emotional = {"incredible"}]
      [] c = "I think" -> [NoInfo EXCEPT !.chars = 7, !.words = 2]
      [] c = "personally" ->
            [NoInfo EXCEPT !.chars = 10, !.words = 1,
                           !.subjective = {"personally"}]
      [] c \in Repeated ->
            [NoInfo EXCEPT !.chars = 3 * RepeatCount(c) - 1,
                           !.words = RepeatCount(c)]

\* str.lower() of a literal.
LowerOf(c) ==
    CASE c = "Mayor resigned." -> "mayor resigned."
      [] c = "Alice met Bob in Paris today" ->
            "alice met bob in paris today"
      [] c = "On 12/05/2024 'sources say'" -> "on 12/05/2024 'sources say'"
      [] c = "SHOCKING" -> "shocking"
      [] c = "I think" -> "i think"
      [] OTHER -> c

\* A string: ws whitespace characters, then the chunks of body.
Str(body) == [ws |-> 0, body |-> body]

EmptyStr == Str(<< >>)

RECURSIVE SumChunks(_, _)
SumChunks(body, field) ==
    IF body = << >> THEN 0
    ELSE ChunkInfo(Head(body))[field] + SumChunks(Tail(body), field)

AnyChunk(body, field) == \E i \in 1..Len(body) : ChunkInfo(body[i])[field]

UnionChunks(body, field) ==
    UNION { ChunkInfo(body[i])[field] : i \in 1..Len(body) }

\* Characters of the chunks and the single spaces between them.
BodyLen(body) ==
    IF body = << >> THEN 0 ELSE SumChunks(body, "chars") + Len(body) - 1

\* len(text)
len(text) == text.ws + BodyLen(text.body)

\* text.strip()
strip(text) == Str(text.body)

\* text.lower(): text_lower, text_l
text_lower(text) ==
    [ws |-> text.ws,
     body |-> [i \in 1..Len(text.body) |-> LowerOf(text.body[i])]]

\* not text
IsEmpty(text) == len(text) = 0

\* len(text.split())
word_count(text) == SumChunks(text.body, "words")

\* len(re.findall(r'[.!?]+', text)): a full stop glued to a piece that
\* already ends in a terminator extends that run instead of starting one.
sentence_count(text) ==
    SumChunks(text.body, "terminators")
      - Cardinality({ i \in 2..Len(text.body) :
                        /\ text.body[i] = FullStop
                        /\ ChunkInfo(text.body[i - 1]).ends_terminator })

\* Index, among the words of the text, of the first word of chunk i.
FirstWordOf(body, i) == SumChunks(SubSeq(body, 1, i - 1), "words") + 1

\* ". ".join(parts) for the list of the non-empty ones among a and b
\* (paste_news.py 197); the result of the join is already stripped.
JoinNonEmpty(a, b) ==
    IF a.body = << >> THEN Str(b.body)
    ELSE IF b.body = << >> THEN Str(a.body)
    ELSE Str(a.body \o << FullStop >> \o b.body)

\* Strings of at most n of the given pieces.
StringsOver(pieces, n) ==
    { Str(b) : b \in UNION { [1..k -> pieces] : k \in 0..n } }

\* Strings of at most maxlen characters, without surrounding whitespace.
StringsUpTo(maxlen) ==
    { Str(b) : b \in { s \in UNION { [1..n -> Chunks] :
                                        n \in 0..((maxlen + 1) \div 3) } :
                          BodyLen(s) <= maxlen } }

---------------------------------------------------------------------------
(* _assess_content_quality.  Indicators are kept in tenths (0.8 is 8).     *)
(* The phrase and word lists are looked up in text_lower, the patterns and *)
(* the quote characters in text.                                           *)

\* What a division by zero puts in the place of its result: the exception
\* is raised and leaves the function.
ZeroDivisionError == 0 - 2

\* Variant of length_indicator whose upper limits are exclusive.
length_indicator_exclusive(text) ==
    LET n == word_count(text)
    IN  IF 50 <= n /\ n < 2000 THEN 8
        ELSE IF (20 <= n /\ n < 50) \/ (2000 <= n /\ n < 3000) THEN 6
        ELSE 3


length_indicator(text) ==
    LET n == word_count(text)
    IN  IF 50 <= n /\ n <= 2000 THEN 8
        ELSE IF (20 <= n /\ n < 50) \/ (2000 < n /\ n <= 3000) THEN 6
        ELSE 3

\* Variant of sentence_indicator that scores a text without sentences 0.
sentence_indicator_zero(text) ==
    LET w == word_count(text)
        n == sentence_count(text)
    IN  IF n > 0
        THEN << IF 10 * n <= w /\ w <= 30 * n THEN 8 ELSE 5 >>
        ELSE << 0 >>


\* Variant of sentence_indicator that divides before looking at
\* sentence_count.
sentence_indicator_unguarded(text) ==
    LET w == word_count(text)
        n == sentence_count(text)
    IN  IF n = 0 THEN << ZeroDivisionError >>
        ELSE << IF 10 * n <= w /\ w <= 30 * n THEN 8 ELSE 5 >>


\* 10 <= word_count / sentence_count <= 30, without the division.
sentence_indicator(text) ==
    LET w == word_count(text)
        n == sentence_count(text)
    IN  IF n > 0
        THEN << IF 10 * n <= w /\ w <= 30 * n THEN 8 ELSE 5 >>
        ELSE << >>

source_indicator(text) ==
    IF AnyChunk(text_lower(text).body, "source") THEN 9 ELSE 4

quote_indicator(text) == IF AnyChunk(text.body, "quotes") THEN 8 ELSE 5

specificity_indicator(text) ==
    LET has_dates == AnyChunk(text.body, "dates")
        has_numbers == AnyChunk(text.body, "numbers")
        has_proper_nouns == SumChunks(text.body, "proper_nouns") > 2
    IN  IF has_dates /\ has_numbers /\ has_proper_nouns THEN 9
        ELSE IF (has_dates /\ has_numbers) \/ (has_dates /\ has_proper_nouns)
        THEN 7
        ELSE IF has_dates \/ has_numbers \/ has_proper_nouns THEN 6
        ELSE 3

\* Variant of red_flag_indicator that scores a red flag 0.0.
red_flag_indicator_zero(text) ==
    IF AnyChunk(text_lower(text).body, "red_flag") THEN 0 ELSE 7


red_flag_indicator(text) ==
    IF AnyChunk(text_lower(text).body, "red_flag") THEN 1 ELSE 7

emotional_indicator(text) ==
    LET emotional_count ==
            Cardinality(UnionChunks(text_lower(text).body, "emotional"))
    IN  IF emotional_count = 0 THEN 8
        ELSE IF emotional_count <= 2 THEN 6
        ELSE 2

quality_indicators(text) ==
    << length_indicator(text) >> \o sentence_indicator(text)
      \o << source_indicator(text), quote_indicator(text),
            specificity_indicator(text), red_flag_indicator(text),
            emotional_indicator(text) >>

RECURSIVE SumSeq(_)
SumSeq(q) == IF q = << >> THEN 0 ELSE Head(q) + SumSeq(Tail(q))

\* Variant of assess_content_quality that divides the sum by six whatever
\* the number of indicators.
assess_content_quality_over_six(text) ==
    LET q == quality_indicators(text)
    IN  (SumSeq(q) * One) \div 60


\* sum(quality_indicators) / len(quality_indicators), as a fixed-point
\* value; a division by zero on the way, or here, raises.
assess_content_quality(text) ==
    LET q == quality_indicators(text)
    IN  IF \E i \in 1..Len(q) : q[i] = ZeroDivisionError
        THEN ZeroDivisionError
        ELSE IF Len(q) = 0 THEN ZeroDivisionError
        ELSE (SumSeq(q) * One) \div (10 * Len(q))

---------------------------------------------------------------------------
(* is_opinion_piece.  A URL is its path segments and whether it ends in a  *)
(* slash; present is FALSE for the empty string.                           *)

markers ==
    { "opinion", "op-ed", "oped", "editorial", "analysis", "commentary",
      "columns" }

UrlSegments == { "opinion", "2024" }

NoUrl == [present |-> FALSE, path |-> << >>, slash |-> FALSE]

Urls ==
    { [present |-> TRUE, path |-> p, slash |-> sl] :
        p \in UNION { [1..n -> UrlSegments] : n \in 0..MaxSegments },
        sl \in BOOLEAN }

\* any(f"/{m}/" in url_l for m in markers): the segment has a slash on both
\* sides, so it is followed by another segment or by the final slash.
url_has_marker(url) ==
    \E i \in 1..Len(url.path) :
        /\ LowerOf(url.path[i]) \in markers
        /\ (i < Len(url.path) \/ url.slash)

FirstWords == 40

\* re.search(pattern, first_40), first_40 being cut from text_l
pattern_in_first_words(text) ==
    \E i \in 1..Len(text.body) :
        /\ ChunkInfo(LowerOf(text.body[i])).pattern
        /\ FirstWordOf(text.body, i) <= FirstWords

\* Variant of subjective_hits that looks the phrases up in text, not text_l.
subjective_hits_case_sensitive(text) ==
    Cardinality(UnionChunks(text.body, "subjective"))


\* sum(1 for s in subjective if s in text_l)
subjective_hits(text) ==
    Cardinality(UnionChunks(text_lower(text).body, "subjective"))

is_opinion_piece(text, url) ==
    IF url_has_marker(url) THEN TRUE
    ELSE IF pattern_in_first_words(text) THEN TRUE
    ELSE subjective_hits(text) >= 2

---------------------------------------------------------------------------
(* _predict_proba_ensemble, steps 1 and 2: the two external classifiers.   *)

MinChars == 10

\* Variant of insufficient that measures the text untrimmed.
insufficient_untrimmed(text) == IsEmpty(text) \/ len(text) < MinChars


\* paste_news.py 18
insufficient(text) == IsEmpty(text) \/ len(strip(text)) < MinChars

\* What a classifier may do: raise, or answer.  The zero-shot answer may
\* lack the label the code looks up.
LexicalOutcomes ==
    { [raised |-> TRUE, value |-> Unset] }
      \cup { [raised |-> FALSE, value |-> v] : v \in Signals }

ZeroShotOutcomes ==
    { [raised |-> TRUE, has_label |-> FALSE, score |-> Unset],
      [raised |-> FALSE, has_label |-> FALSE, score |-> Unset] }
      \cup { [raised |-> FALSE, has_label |-> TRUE, score |-> v] :
               v \in Signals }

NotCalled == [raised |-> FALSE, value |-> Unset]

ZsNotCalled == [raised |-> FALSE, has_label |-> FALSE, score |-> Unset]

\* Variant of lexical_step without the try / except.
lexical_step_unguarded(out) ==
    [base_proba |-> out.value, escapes |-> out.raised]


\* paste_news.py 22-26: try / except Exception.  escapes says whether the
\* exception leaves the function.
lexical_step(out) ==
    IF out.raised
    THEN [base_proba |-> Pct(50), escapes |-> FALSE]
    ELSE [base_proba |-> out.value, escapes |-> FALSE]

\* paste_news.py 29-42: zs_proba = 0.5, then try / except Exception: pass.
zeroshot_step(out) ==
    IF out.raised
    THEN [zs_proba |-> Pct(50), escapes |-> FALSE]
    ELSE IF out.has_label
    THEN [zs_proba |-> out.score, escapes |-> FALSE]
    ELSE [zs_proba |-> Pct(50), escapes |-> FALSE]

---------------------------------------------------------------------------
(* run_paste_news_feature: the submitted form.                             *)

ArticleWords == 600

\* " ".join(text.split()[:600]): the leading pieces that fit in n words.
first_words(text, n) ==
    LET fits == { k \in 0..Len(text.body) :
                    SumChunks(SubSeq(text.body, 1, k), "words") <= n }
        k == CHOOSE k \in fits : \A j \in fits : j <= k
    IN  Str(SubSeq(text.body, 1, k))

\* The text area holds pasted text or a URL.
UserValues ==
    { [is_url |-> FALSE, text |-> t, url |-> NoUrl] :
        t \in StringsUpTo(MaxBodyLen) }
      \cup { [is_url |-> TRUE, text |-> EmptyStr, url |-> u] : u \in Urls }

NoInput == [is_url |-> FALSE, text |-> EmptyStr, url |-> NoUrl]

\* _get_article_text_or_content, page being what fetch_article_text
\* returned for the URL (EmptyStr for "" or None).
get_article_text_or_content(value, page) ==
    IF value = NoInput THEN EmptyStr
    ELSE IF value.is_url THEN first_words(page, ArticleWords)
    ELSE value.text

---------------------------------------------------------------------------
(* Actions. *)

\* paste_news.py 189-202: the form is submitted.
Submit ==
    /\ pc = "form"
    /\ \E title \in StringsUpTo(MaxTitleLen), value \in UserValues,
          page \in StringsUpTo(MaxPageLen) :
         /\ (value.is_url \/ page = EmptyStr)
         /\ title_text' = title
         /\ user_val' = value
         /\ IF value = NoInput /\ title = EmptyStr
            THEN /\ shown' = "warning"
                 /\ pc' = "done"
                 /\ UNCHANGED << content_text, combined_text,
                                 effective_source_url >>
            ELSE LET content == IF value # NoInput
                                THEN get_article_text_or_content(value, page)
                                ELSE EmptyStr
                     combined == JoinNonEmpty(title, content)
                 IN  /\ content_text' = content
                     /\ combined_text' = combined
                     /\ effective_source_url' =
                            IF value.is_url THEN value.url ELSE NoUrl
                     /\ pc' = IF ~IsEmpty(strip(combined))
                              THEN "gate" ELSE "done"
                     /\ UNCHANGED shown
    /\ UNCHANGED << base_proba, zs_proba, quality_score, proba, verdict,
                    verdict_confidence, confidence_percentage, calls,
                    lexical_out, zeroshot_out, metrics >>
    /\ UNCHANGED indicator_list
    /\ UNCHANGED other_vars

\* paste_news.py 211-223: what the page shows and where the handler goes
\* once is_opinion_piece has answered.
NoMetrics == << >>

OpinionMetrics == << "Opinion", "Not Applicable", "N/A" >>

\* Variant of after_gate whose opinion branch falls through to the scorer.
after_gate_fallthrough(opinion) ==
    IF opinion
    THEN [shown |-> "opinion", metrics |-> OpinionMetrics, pc |-> "ensemble"]
    ELSE [shown |-> "none", metrics |-> NoMetrics, pc |-> "ensemble"]


after_gate(opinion) ==
    IF opinion
    THEN [shown |-> "opinion", metrics |-> OpinionMetrics, pc |-> "done"]
    ELSE [shown |-> "none", metrics |-> NoMetrics, pc |-> "ensemble"]

\* paste_news.py 210-223: the opinion gate.
Gate ==
    /\ pc = "gate"
    /\ calls' = calls \cup {"is_opinion_piece"}
    /\ LET then == after_gate(is_opinion_piece(combined_text,
                                               effective_source_url))
       IN  /\ shown' = then.shown
           /\ metrics' = then.metrics
           /\ pc' = then.pc
    /\ UNCHANGED << title_text, user_val, combined_text, effective_source_url,
                    base_proba, zs_proba, quality_score, proba, verdict,
                    verdict_confidence, confidence_percentage, content_text,
                    lexical_out, zeroshot_out >>
    /\ UNCHANGED indicator_list
    /\ UNCHANGED other_vars

\* paste_news.py 18-19: _predict_proba_ensemble is entered.
EnsembleEntry ==
    /\ pc = "ensemble"
    /\ calls' = calls \cup {"_predict_proba_ensemble"}
    /\ IF insufficient(combined_text)
       THEN /\ proba' = Pct(50)
            /\ pc' = "band"
       ELSE /\ pc' = "lexical"
            /\ UNCHANGED proba
    /\ UNCHANGED << title_text, user_val, combined_text, effective_source_url,
                    base_proba, zs_proba, quality_score, verdict,
                    verdict_confidence, confidence_percentage, shown,
                    content_text, lexical_out, zeroshot_out, metrics >>
    /\ UNCHANGED indicator_list
    /\ UNCHANGED other_vars

\* paste_news.py 21-26: the lexical classifier.
Lexical ==
    /\ pc = "lexical"
    /\ \E out \in LexicalOutcomes :
         /\ lexical_out' = out
         /\ base_proba' = lexical_step(out).base_proba
         /\ pc' = IF lexical_step(out).escapes THEN "raised" ELSE "zeroshot"
    /\ calls' = calls \cup {"lexical"}
    /\ UNCHANGED << title_text, user_val, combined_text, effective_source_url,
                    zs_proba, quality_score, proba, verdict,
                    verdict_confidence, confidence_percentage, shown,
                    content_text, zeroshot_out, metrics >>
    /\ UNCHANGED indicator_list
    /\ UNCHANGED other_vars

\* paste_news.py 28-42: the zero-shot classifier.
ZeroShot ==
    /\ pc = "zeroshot"
    /\ \E out \in ZeroShotOutcomes :
         /\ zeroshot_out' = out
         /\ zs_proba' = zeroshot_step(out).zs_proba
         /\ pc' = IF zeroshot_step(out).escapes THEN "raised" ELSE "quality"
    /\ calls' = calls \cup {"zeroshot"}
    /\ UNCHANGED << title_text, user_val, combined_text, effective_source_url,
                    base_proba, quality_score, proba, verdict,
                    verdict_confidence, confidence_percentage, shown,
                    content_text, lexical_out, metrics >>
    /\ UNCHANGED indicator_list
    /\ UNCHANGED other_vars

\* paste_news.py 44-45: the quality heuristic.
Quality ==
    /\ pc = "quality"
    /\ quality_score' = assess_content_quality(combined_text)
    /\ indicator_list' = quality_indicators(combined_text)
    /\ calls' = calls \cup {"_assess_content_quality"}
    /\ pc' = IF assess_content_quality(combined_text) = ZeroDivisionError
             THEN "raised" ELSE "combine"
    /\ UNCHANGED << title_text, user_val, combined_text, effective_source_url,
                    base_proba, zs_proba, proba, verdict,
                    verdict_confidence, confidence_percentage, shown,
                    content_text, lexical_out, zeroshot_out, metrics >>
    /\ UNCHANGED other_vars

\* paste_news.py 49-59: combine the three signals and return.
Combine ==
    /\ pc = "combine"
    /\ proba' = Combiner(base_proba, zs_proba, quality_score)
    /\ pc' = "band"
    /\ UNCHANGED << title_text, user_val, combined_text, effective_source_url,
                    base_proba, zs_proba, quality_score, verdict,
                    verdict_confidence, confidence_percentage, calls, shown,
                    content_text, lexical_out, zeroshot_out, metrics >>
    /\ UNCHANGED indicator_list
    /\ UNCHANGED other_vars

\* paste_news.py 225-245: the if/elif chain over proba.
Band ==
    /\ pc = "band"
    /\ verdict' = Banding(proba).verdict
    /\ verdict_confidence' = Banding(proba).verdict_confidence
    /\ pc' = "display"
    /\ UNCHANGED << title_text, user_val, combined_text, effective_source_url,
                    base_proba, zs_proba, quality_score, proba,
                    confidence_percentage, calls, shown, content_text,
                    lexical_out, zeroshot_out, metrics >>
    /\ UNCHANGED indicator_list
    /\ UNCHANGED other_vars

\* paste_news.py 247-272: display confidence and the three metrics.
Display ==
    /\ pc = "display"
    /\ confidence_percentage' = ConfidencePercentage(proba)
    /\ shown' = "verdict"
    /\ metrics' = << verdict, confidence_percentage', verdict_confidence >>
    /\ pc' = "done"
    /\ UNCHANGED << title_text, user_val, combined_text, effective_source_url,
                    base_proba, zs_proba, quality_score, proba, verdict,
                    verdict_confidence, calls, content_text, lexical_out,
                    zeroshot_out >>
    /\ UNCHANGED indicator_list
    /\ UNCHANGED other_vars

\* Locals of a run that has not assigned them.
Fresh ==
    /\ title_text = EmptyStr
    /\ user_val = NoInput
    /\ content_text = EmptyStr
    /\ combined_text = EmptyStr
    /\ effective_source_url = NoUrl
    /\ base_proba = Unset
    /\ zs_proba = Unset
    /\ quality_score = Unset
    /\ indicator_list = << >>
    /\ proba = Unset
    /\ verdict = ""
    /\ verdict_confidence = ""
    /\ confidence_percentage = Unset
    /\ calls = {}
    /\ shown = "none"
    /\ lexical_out = NotCalled
    /\ zeroshot_out = ZsNotCalled
    /\ metrics = NoMetrics

\* Streamlit runs the script again for the next interaction; nothing of the
\* finished run is kept.
Rerun ==
    /\ pc = "done"
    /\ pc' = "form"
    /\ title_text' = EmptyStr
    /\ user_val' = NoInput
    /\ content_text' = EmptyStr
    /\ combined_text' = EmptyStr
    /\ effective_source_url' = NoUrl
    /\ base_proba' = Unset
    /\ zs_proba' = Unset
    /\ quality_score' = Unset
    /\ indicator_list' = << >>
    /\ proba' = Unset
    /\ verdict' = ""
    /\ verdict_confidence' = ""
    /\ confidence_percentage' = Unset
    /\ calls' = {}
    /\ shown' = "none"
    /\ lexical_out' = NotCalled
    /\ zeroshot_out' = ZsNotCalled
    /\ metrics' = NoMetrics
    /\ UNCHANGED other_vars

---------------------------------------------------------------------------
(* utils/models.py: predict_proba_content_only. *)

\* n thousandths, for the 0.005 and 0.995 of models.py 186.
Permille(n) == (n * One) \div 1000

\* The lexical model may fail to load, to preprocess or to predict, or it
\* answers with any probability.
ContentLexicalOutcomes ==
    { [raised |-> TRUE, value |-> Unset] }
      \cup { [raised |-> FALSE, value |-> v] : v \in Grid }

ContentZeroShotOutcomes ==
    { [raised |-> TRUE, has_label |-> FALSE, score |-> Unset],
      [raised |-> FALSE, has_label |-> FALSE, score |-> Unset] }
      \cup { [raised |-> FALSE, has_label |-> TRUE, score |-> v] :
               v \in Grid }

\* models.py 166-168: no try around the three calls, so an exception
\* leaves the function.
content_lexical_step(out) ==
    [base_proba |-> out.value, escapes |-> out.raised]

\* models.py 170-183: try / except Exception with pz = 0.5.
content_zeroshot_step(out) ==
    IF out.raised
    THEN Pct(50)
    ELSE IF out.has_label THEN out.score ELSE Pct(50)

\* Variant of content_only_proba with the two weights exchanged.
content_only_proba_swapped(base, zs) ==
    min(Permille(995), max(Permille(5), (4 * base + 6 * zs) \div 10))

\* models.py 185-186
content_only_proba(base, zs) ==
    min(Permille(995), max(Permille(5), (6 * base + 4 * zs) \div 10))

ContentOnlyIdle ==
    /\ content_lexical_out = NotCalled
    /\ content_zeroshot_out = ZsNotCalled
    /\ content_base_proba = Unset
    /\ pz = Unset
    /\ returned = Unset

\* models.py 166-168
ContentLexical ==
    /\ pc = "content_lexical"
    /\ \E out \in ContentLexicalOutcomes :
         /\ content_lexical_out' = out
         /\ content_base_proba' = content_lexical_step(out).base_proba
         /\ pc' = IF content_lexical_step(out).escapes
                  THEN "raised" ELSE "content_zeroshot"
    /\ UNCHANGED << content_zeroshot_out, pz, returned >>
    /\ UNCHANGED << page_locals, trends_vars, factcheck_vars, rating_vars >>

\* models.py 170-183
ContentZeroShot ==
    /\ pc = "content_zeroshot"
    /\ \E out \in ContentZeroShotOutcomes :
         /\ content_zeroshot_out' = out
         /\ pz' = content_zeroshot_step(out)
    /\ pc' = "content_return"
    /\ UNCHANGED << content_lexical_out, content_base_proba, returned >>
    /\ UNCHANGED << page_locals, trends_vars, factcheck_vars, rating_vars >>

\* models.py 185-186
ContentReturn ==
    /\ pc = "content_return"
    /\ returned' = content_only_proba(content_base_proba, pz)
    /\ pc' = "content_returned"
    /\ UNCHANGED << content_lexical_out, content_zeroshot_out,
                    content_base_proba, pz >>
    /\ UNCHANGED << page_locals, trends_vars, factcheck_vars, rating_vars >>

---------------------------------------------------------------------------
(* features/news_trends.py: the module cache of the trends dashboard.     *)
(* Time is counted in clock units, UnitsPerMinute to the minute, so that  *)
(* two renders of one minute can differ in time.  An article list is      *)
(* modelled by its length.                                                 *)

UnitsPerMinute == 2

\* Renders of the dashboard in one run of the model.
MaxRenders == 4

\* Longest article list a fetch returns in the model.
MaxArticles == 2

\* news_trends.py 36: timedelta(minutes=15)
cache_ttl == 15 * UnitsPerMinute

\* Time that may pass between two renders.
Elapsed == {0, 1, cache_ttl - 1, cache_ttl, cache_ttl + 1}

\* Time a fetch may take.
FetchTime == {0, 1}

\* news_trends.py 298: strftime('%Y%m%d_%H%M') keeps the minute.
minute_key(t) == t \div UnitsPerMinute

\* None, as returned by dict.get for a missing key.
NoEntry == [key |-> Unset, data |-> 0, timestamp |-> Unset]

\* news_trends.py 23-25
get_cached_trends(cache, key) ==
    IF \E e \in cache : e.key = key
    THEN CHOOSE e \in cache : e.key = key
    ELSE NoEntry

\* news_trends.py 27-32
set_cached_trends(cache, key, data, t) ==
    { e \in cache : e.key # key }
      \cup { [key |-> key, data |-> data, timestamp |-> t] }

\* Variant of old_keys that also removes an entry exactly 15 minutes old.
old_keys_inclusive(cache, t) ==
    { e.key : e \in { x \in cache : x.timestamp <= t - cache_ttl } }

\* news_trends.py 36-40: keys_to_remove
old_keys(cache, t) ==
    { e.key : e \in { x \in cache : x.timestamp < t - cache_ttl } }

\* news_trends.py 41-42
clear_old_cache(cache, t) ==
    { e \in cache : e.key \notin old_keys(cache, t) }

\* Variant of store_fetched without the test of news_trends.py 306.
store_fetched_always(cache, key, data, t) ==
    set_cached_trends(cache, key, data, t)

\* news_trends.py 306-307
store_fetched(cache, key, data, t) ==
    IF data > 0 THEN set_cached_trends(cache, key, data, t) ELSE cache

TrendsIdle ==
    /\ now = 0
    /\ cache_key = Unset
    /\ trends_cache = {}
    /\ keys_to_remove = {}
    /\ cached_data = NoEntry
    /\ articles = Unset
    /\ renders = 0

\* news_trends.py 298
TrendsKey ==
    /\ pc = "trends_render"
    /\ cache_key' = minute_key(now)
    /\ pc' = "trends_clear"
    /\ UNCHANGED << now, trends_cache, keys_to_remove, cached_data, articles,
                    renders >>
    /\ UNCHANGED << page_locals, content_vars, factcheck_vars, rating_vars >>

\* news_trends.py 299: _clear_old_cache()
TrendsClear ==
    /\ pc = "trends_clear"
    /\ keys_to_remove' = old_keys(trends_cache, now)
    /\ trends_cache' = clear_old_cache(trends_cache, now)
    /\ pc' = "trends_lookup"
    /\ UNCHANGED << now, cache_key, cached_data, articles, renders >>
    /\ UNCHANGED << page_locals, content_vars, factcheck_vars, rating_vars >>

\* news_trends.py 301-304
TrendsLookup ==
    /\ pc = "trends_lookup"
    /\ cached_data' = get_cached_trends(trends_cache, cache_key)
    /\ IF get_cached_trends(trends_cache, cache_key) # NoEntry
       THEN /\ articles' = get_cached_trends(trends_cache, cache_key).data
            /\ pc' = "trends_shown"
       ELSE /\ articles' = articles
            /\ pc' = "trends_fetch"
    /\ UNCHANGED << now, cache_key, trends_cache, keys_to_remove, renders >>
    /\ UNCHANGED << page_locals, content_vars, factcheck_vars, rating_vars >>

\* news_trends.py 305-307: fetch_trending_news answers with a list, empty
\* when the fetch failed (news_trends.py 116-119), after some time.
TrendsFetch ==
    /\ pc = "trends_fetch"
    /\ \E d \in FetchTime, n \in 0..MaxArticles :
         /\ now' = now + d
         /\ articles' = n
         /\ trends_cache' = store_fetched(trends_cache, cache_key, n, now + d)
    /\ pc' = "trends_shown"
    /\ UNCHANGED << cache_key, keys_to_remove, cached_data, renders >>
    /\ UNCHANGED << page_locals, content_vars, factcheck_vars, rating_vars >>

\* The next render of the dashboard, some time later: the locals are new,
\* the module cache is kept.
TrendsRerun ==
    /\ pc = "trends_shown"
    /\ renders < MaxRenders
    /\ \E d \in Elapsed : now' = now + d
    /\ renders' = renders + 1
    /\ cache_key' = Unset
    /\ keys_to_remove' = {}
    /\ cached_data' = NoEntry
    /\ articles' = Unset
    /\ pc' = "trends_render"
    /\ UNCHANGED trends_cache
    /\ UNCHANGED << page_locals, content_vars, factcheck_vars, rating_vars >>

---------------------------------------------------------------------------
(* features/fact_check.py: fact_check_claims_long_article.  An article is *)
(* some blanks followed by pieces joined by single blanks; a hit list is  *)
(* modelled by its length.                                                 *)

\* Pieces of an article in one input of the model.
MaxPieces == 3

\* Largest max_claims in the model.
MaxClaims == 2

\* Longest hit list the Google search returns in the model.
MaxGoogleHits == 1

Filler == "and then some."

Pieces ==
    { "Stop right there.",
      "The quiet river ran past the old mill again.",
      "Officials said the new bridge will open to traffic next spring.",
      "Climate change is a hoax that scientists always repeat every year.",
      "This secret cure never fails according to the people selling it.",
      Filler }

\* What the code finds in a piece: its words (str.split), whether it starts
\* with a capital letter (the look-ahead of fact_check.py 24), the score
\* of fact_check.py 60-89, the hits of search_manual_factcheck and of
\* analyze_claim_heuristics.
PieceInfo(c) ==
    CASE c = "Stop right there." ->
           [words |-> 3, capital |-> TRUE, points |-> 0, manual |-> 0,
            heuristic |-> 0]
      [] c = "The quiet river ran past the old mill again." ->
           [words |-> 9, capital |-> TRUE, points |-> 0, manual |-> 0,
            heuristic |-> 0]
      [] c = "Officials said the new bridge will open to traffic next spring." ->
           [words |-> 11, capital |-> TRUE, points |-> 10, manual |-> 0,
            heuristic |-> 0]
      [] c = "Climate change is a hoax that scientists always repeat every year." ->
           [words |-> 11, capital |-> TRUE, points |-> 4, manual |-> 1,
            heuristic |-> 1]
      [] c = "This secret cure never fails according to the people selling it." ->
           [words |-> 11, capital |-> TRUE, points |-> 3, manual |-> 0,
            heuristic |-> 2]
      [] c = Filler ->
           [words |-> 3, capital |-> FALSE, points |-> 0, manual |-> 0,
            heuristic |-> 0]

Articles ==
    [ ws : 0..MaxPad,
      body : UNION { [1..n -> Pieces] : n \in 0..MaxPieces } ]

\* fact_check.py 19-20: (text or '').strip() is empty.
article_is_empty(a) == a.body = << >>

\* fact_check.py 24: re.split(r'(?<=[.!?])\s+(?=[A-Z])', text).  Every piece
\* ends in a full stop, so the text is cut before each piece that starts
\* with a capital letter; a sentence is the sequence of its pieces.
RECURSIVE split_from(_, _, _)
split_from(body, i, acc) ==
    IF i > Len(body) THEN acc
    ELSE IF Len(acc) = 0 \/ PieceInfo(body[i]).capital
    THEN split_from(body, i + 1, Append(acc, << body[i] >>))
    ELSE split_from(body, i + 1,
                    [acc EXCEPT ![Len(acc)] = Append(@, body[i])])

split_sentences(a) == split_from(a.body, 1, << >>)

\* len(sentence.split())
RECURSIVE sentence_words(_)
sentence_words(sentence) ==
    IF sentence = << >> THEN 0
    ELSE PieceInfo(Head(sentence)).words + sentence_words(Tail(sentence))

\* fact_check.py 60-96.  The pieces after the first are fillers, which add
\* words and nothing the scoring looks for.
score(sentence) ==
    PieceInfo(Head(sentence)).points
      + (IF 12 <= sentence_words(sentence) /\ sentence_words(sentence) <= 25
         THEN 1
         ELSE IF sentence_words(sentence) < 8 THEN 0 - 3 ELSE 0)

\* fact_check.py 57-58, 98
is_candidate(sentence) ==
    /\ sentence_words(sentence) >= 8
    /\ sentence_words(sentence) <= 40
    /\ score(sentence) > 0

\* fact_check.py 55-99
candidates(sents) == SelectSeq(sents, is_candidate)

\* fact_check.py 102: list.sort by score, descending and stable.
RECURSIVE sort_by_score(_)
sort_by_score(c) ==
    IF c = << >> THEN << >>
    ELSE LET best == CHOOSE i \in 1..Len(c) :
                       /\ \A j \in 1..Len(c) : score(c[j]) <= score(c[i])
                       /\ \A j \in 1..(i - 1) : score(c[j]) < score(c[i])
             rest == [ k \in 1..(Len(c) - 1) |->
                         IF k < best THEN c[k] ELSE c[k + 1] ]
         IN  << c[best] >> \o sort_by_score(rest)

\* fact_check.py 107-108: the test of the fall-back.
is_key_sentence(sentence) ==
    sentence_words(sentence) >= 8 /\ sentence_words(sentence) <= 30

\* A slice [:n] with n >= 0.
first_n(q, n) == SubSeq(q, 1, min(n, Len(q)))

\* fact_check.py 103-108
select_claims(sents, n) ==
    IF first_n(sort_by_score(candidates(sents)), n) # << >>
    THEN first_n(sort_by_score(candidates(sents)), n)
    ELSE SelectSeq(first_n(sents, n), is_key_sentence)

\* fact_check.py 196-237: at most one hit, by pattern.
search_manual_factcheck(claim) == PieceInfo(Head(claim)).manual

\* fact_check.py 240-283
analyze_claim_heuristics(claim) == PieceInfo(Head(claim)).heuristic

\* Variant of after_google that goes on to the manual search in any case.
after_google_always_manual(hits) == "factcheck_manual"

\* fact_check.py 121: if not google_hits; 126: if not all_hits.
after_google(hits) ==
    IF hits = 0 THEN "factcheck_manual" ELSE "factcheck_append"

\* fact_check.py 126: if not all_hits
after_manual(hits) ==
    IF hits = 0 THEN "factcheck_heuristic" ELSE "factcheck_append"

\* The claim the loop of fact_check.py 113 is at.
claim_index == Len(results) + 1

FactCheckIdle ==
    /\ article = [ws |-> 0, body |-> << >>]
    /\ sentences = << >>
    /\ max_claims = 0
    /\ selected_claims = << >>
    /\ results = << >>
    /\ searches = << >>
    /\ all_hits = 0
    /\ google_hits = 0

\* fact_check.py 19-111
FactCheckStart ==
    /\ pc = "factcheck_start"
    /\ IF article_is_empty(article)
       THEN /\ sentences' = << >>
            /\ selected_claims' = << >>
            /\ pc' = "factcheck_returned"
       ELSE /\ sentences' = split_sentences(article)
            /\ selected_claims' =
                 select_claims(split_sentences(article), max_claims)
            /\ pc' = IF select_claims(split_sentences(article), max_claims)
                        = << >>
                     THEN "factcheck_returned" ELSE "factcheck_google"
    /\ results' = << >>
    /\ UNCHANGED << article, max_claims, searches, all_hits, google_hits >>
    /\ UNCHANGED << page_locals, content_vars, trends_vars, rating_vars >>

\* fact_check.py 114-118: search_google_factcheck catches what its requests
\* raise and answers with the hits it has.
FactCheckGoogle ==
    /\ pc = "factcheck_google"
    /\ \E hits \in 0..MaxGoogleHits :
         /\ google_hits' = hits
         /\ all_hits' = hits
         /\ searches' = Append(searches, [claim |-> claim_index,
                                          search |-> "google",
                                          hits |-> hits])
         /\ pc' = after_google(hits)
    /\ UNCHANGED << article, sentences, max_claims, selected_claims,
                    results >>
    /\ UNCHANGED << page_locals, content_vars, trends_vars, rating_vars >>

\* fact_check.py 122-123
FactCheckManual ==
    /\ pc = "factcheck_manual"
    /\ all_hits' =
         all_hits + search_manual_factcheck(selected_claims[claim_index])
    /\ searches' =
         Append(searches,
                [claim |-> claim_index, search |-> "manual",
                 hits |-> search_manual_factcheck(selected_claims[claim_index])])
    /\ pc' = after_manual(
                all_hits + search_manual_factcheck(selected_claims[claim_index]))
    /\ UNCHANGED << article, sentences, max_claims, selected_claims,
                    results, google_hits >>
    /\ UNCHANGED << page_locals, content_vars, trends_vars, rating_vars >>

\* fact_check.py 127-128
FactCheckHeuristic ==
    /\ pc = "factcheck_heuristic"
    /\ all_hits' =
         all_hits + analyze_claim_heuristics(selected_claims[claim_index])
    /\ searches' =
         Append(searches,
                [claim |-> claim_index, search |-> "heuristic",
                 hits |-> analyze_claim_heuristics(selected_claims[claim_index])])
    /\ pc' = "factcheck_append"
    /\ UNCHANGED << article, sentences, max_claims, selected_claims,
                    results, google_hits >>
    /\ UNCHANGED << page_locals, content_vars, trends_vars, rating_vars >>

\* fact_check.py 130-132
FactCheckAppend ==
    /\ pc = "factcheck_append"
    /\ results' = Append(results, [claim |-> selected_claims[claim_index],
                                   hits |-> all_hits])
    /\ pc' = IF claim_index = Len(selected_claims)
             THEN "factcheck_returned" ELSE "factcheck_google"
    /\ UNCHANGED << article, sentences, max_claims, selected_claims,
                    searches, all_hits, google_hits >>
    /\ UNCHANGED << page_locals, content_vars, trends_vars, rating_vars >>

---------------------------------------------------------------------------
(* utils/helpers.py: normalize_factcheck_rating.  A rating is a word,     *)
(* in lower or in upper case, between blanks.                              *)

positive ==
    { "true", "mostly true", "correct", "accurate", "verified", "supported",
      "fact", "legit" }

negative ==
    { "false", "mostly false", "pants on fire", "incorrect", "misleading",
      "fabricated", "no evidence", "debunked", "hoax" }

neutral ==
    { "partly true", "half true", "mixed", "needs context", "unproven",
      "unclear", "insufficient", "context" }

RatingWords ==
    positive \cup negative \cup neutral
      \cup { "", "unknown", "inaccurate", "four pinocchios" }

Ratings == [ ws : 0..MaxPad, upper : BOOLEAN, word : RatingWords ]

\* The keywords that occur inside a word, the word itself apart.
Inside(w) ==
    CASE w = "mostly true" -> {"true"}
      [] w = "mostly false" -> {"false"}
      [] w = "incorrect" -> {"correct"}
      [] w = "partly true" -> {"true"}
      [] w = "half true" -> {"true"}
      [] w = "needs context" -> {"context"}
      [] w = "inaccurate" -> {"accurate"}
      [] OTHER -> {}

\* k in r
occurs_in(k, r) == k = r \/ k \in Inside(r)

\* helpers.py 159: (rating or "").strip().lower()
strip_lower(r) == r.word

\* helpers.py 160-179
normalize_factcheck_rating(r) ==
    IF strip_lower(r) = "" THEN "mixed"
    ELSE IF \E k \in positive : occurs_in(k, strip_lower(r)) THEN "supports"
    ELSE IF \E k \in negative : occurs_in(k, strip_lower(r)) THEN "refutes"
    ELSE IF \E k \in neutral : occurs_in(k, strip_lower(r)) THEN "mixed"
    ELSE "mixed"

NoRating == [ws |-> 0, upper |-> FALSE, word |-> ""]

RatingIdle ==
    /\ rating = NoRating
    /\ normalized = ""

\* helpers.py 157-179
NormalizeRating ==
    /\ pc = "rating"
    /\ normalized' = normalize_factcheck_rating(rating)
    /\ pc' = "rating_returned"
    /\ UNCHANGED rating
    /\ UNCHANGED << page_locals, content_vars, trends_vars, factcheck_vars >>

\* Nothing outside the paste-news page is running.
OthersIdle ==
    /\ ContentOnlyIdle
    /\ TrendsIdle
    /\ FactCheckIdle
    /\ RatingIdle

---------------------------------------------------------------------------
(* The page: every submission of the form. *)

Init == pc = "form" /\ Fresh /\ OthersIdle

Next ==
    \/ Submit
    \/ Gate
    \/ EnsembleEntry
    \/ Lexical
    \/ ZeroShot
    \/ Quality
    \/ Combine
    \/ Band
    \/ Display
    \/ Rerun

Spec == Init /\ [][Next]_vars

---------------------------------------------------------------------------
(* The combiner as a function of three signals: every triple of the grid,  *)
(* followed by the banding and display of the result.                      *)

InitScore ==
    /\ pc = "combine"
    /\ title_text = EmptyStr
    /\ user_val = NoInput
    /\ content_text = EmptyStr
    /\ combined_text = EmptyStr
    /\ effective_source_url = NoUrl
    /\ base_proba \in Grid
    /\ zs_proba \in Grid
    /\ quality_score \in Grid
    /\ indicator_list = << >>
    /\ proba = Unset
    /\ verdict = ""
    /\ verdict_confidence = ""
    /\ confidence_percentage = Unset
    /\ calls = {}
    /\ shown = "none"
    /\ lexical_out = NotCalled
    /\ zeroshot_out = ZsNotCalled
    /\ metrics = NoMetrics
    /\ OthersIdle

NextScore == Combine \/ Band \/ Display

SpecScore == InitScore /\ [][NextScore]_vars

---------------------------------------------------------------------------
(* _predict_proba_ensemble called on any text, padded or empty, or         *)
(* reaching its combiner with any triple of signals.                       *)

Texts ==
    { [ws |-> w, body |-> t.body] :
        w \in 0..MaxPad, t \in StringsUpTo(MaxBodyLen) }

InitEnsemble ==
    \/ /\ pc = "ensemble"
       /\ title_text = EmptyStr
       /\ user_val = NoInput
       /\ content_text = EmptyStr
       /\ combined_text \in Texts
       /\ effective_source_url \in {NoUrl}
       /\ base_proba = Unset
       /\ zs_proba = Unset
       /\ quality_score = Unset
       /\ indicator_list = << >>
       /\ proba = Unset
       /\ verdict = ""
       /\ verdict_confidence = ""
       /\ confidence_percentage = Unset
       /\ calls = {}
       /\ shown = "none"
       /\ lexical_out = NotCalled
       /\ zeroshot_out = ZsNotCalled
       /\ metrics = NoMetrics
       /\ OthersIdle
    \/ InitScore

NextEnsemble ==
    \/ EnsembleEntry
    \/ Lexical
    \/ ZeroShot
    \/ Quality
    \/ Combine
    \/ Band
    \/ Display

SpecEnsemble == InitEnsemble /\ [][NextEnsemble]_vars

---------------------------------------------------------------------------
(* The banding and display of any probability of [0, 1]. *)

BandSteps == 200

InitBanding ==
    /\ pc = "band"
    /\ title_text = EmptyStr
    /\ user_val = NoInput
    /\ content_text = EmptyStr
    /\ combined_text = EmptyStr
    /\ effective_source_url = NoUrl
    /\ base_proba = Unset
    /\ zs_proba = Unset
    /\ quality_score = Unset
    /\ indicator_list = << >>
    /\ proba \in { k * (One \div BandSteps) : k \in 0..BandSteps }
    /\ verdict = ""
    /\ verdict_confidence = ""
    /\ confidence_percentage = Unset
    /\ calls = {}
    /\ shown = "none"
    /\ lexical_out = NotCalled
    /\ zeroshot_out = ZsNotCalled
    /\ metrics = NoMetrics
    /\ OthersIdle

NextBanding == Band \/ Display

SpecBanding == InitBanding /\ [][NextBanding]_vars

---------------------------------------------------------------------------
(* is_opinion_piece called on any text and URL. *)

OpinionTexts == StringsOver(OpinionChunks, MaxOpinionChunks)

OpinionUrls ==
    { NoUrl }
      \cup { [present |-> TRUE, path |-> p, slash |-> sl] :
                p \in UNION { [1..n -> UrlSegments] :
                                n \in 0..MaxOpinionSegments },
                sl \in BOOLEAN }

InitOpinion ==
    /\ pc = "gate"
    /\ title_text = EmptyStr
    /\ user_val = NoInput
    /\ content_text = EmptyStr
    /\ combined_text \in OpinionTexts
    /\ effective_source_url \in OpinionUrls
    /\ base_proba = Unset
    /\ zs_proba = Unset
    /\ quality_score = Unset
    /\ indicator_list = << >>
    /\ proba = Unset
    /\ verdict = ""
    /\ verdict_confidence = ""
    /\ confidence_percentage = Unset
    /\ calls = {}
    /\ shown = "none"
    /\ lexical_out = NotCalled
    /\ zeroshot_out = ZsNotCalled
    /\ metrics = NoMetrics
    /\ OthersIdle

NextOpinion == Gate

SpecOpinion == InitOpinion /\ [][NextOpinion]_vars

---------------------------------------------------------------------------
(* _assess_content_quality called on any text, the empty one included. *)

QualityTexts ==
    { Str(head \o t.body) :
        head \in { << >> } \cup { << c >> : c \in Repeated
                                                    \ {"ok x39", "ok x40"} },
        t \in StringsOver(QualityChunks, MaxQualityChunks) }

InitQuality ==
    /\ pc = "quality"
    /\ title_text = EmptyStr
    /\ user_val = NoInput
    /\ content_text = EmptyStr
    /\ combined_text \in QualityTexts
    /\ effective_source_url = NoUrl
    /\ base_proba = Unset
    /\ zs_proba = Unset
    /\ quality_score = Unset
    /\ indicator_list = << >>
    /\ proba = Unset
    /\ verdict = ""
    /\ verdict_confidence = ""
    /\ confidence_percentage = Unset
    /\ calls = {}
    /\ shown = "none"
    /\ lexical_out = NotCalled
    /\ zeroshot_out = ZsNotCalled
    /\ metrics = NoMetrics
    /\ OthersIdle

NextQuality == Quality

SpecQuality == InitQuality /\ [][NextQuality]_vars

---------------------------------------------------------------------------
(* _predict_proba_ensemble once both classifiers have failed: the lexical  *)
(* one raised and the zero-shot one raised or answered without the label,  *)
(* so both signals are the 0.5 default, for any text long enough to get    *)
(* that far.                                                               *)

InitHeuristicOnly ==
    /\ pc = "quality"
    /\ title_text = EmptyStr
    /\ user_val = NoInput
    /\ content_text = EmptyStr
    /\ combined_text \in { t \in QualityTexts : ~insufficient(t) }
    /\ effective_source_url = NoUrl
    /\ lexical_out = [raised |-> TRUE, value |-> Unset]
    /\ zeroshot_out = [raised |-> TRUE, has_label |-> FALSE, score |-> Unset]
    /\ base_proba = lexical_step(lexical_out).base_proba
    /\ zs_proba = zeroshot_step(zeroshot_out).zs_proba
    /\ quality_score = Unset
    /\ indicator_list = << >>
    /\ proba = Unset
    /\ verdict = ""
    /\ verdict_confidence = ""
    /\ confidence_percentage = Unset
    /\ calls = {"_predict_proba_ensemble", "lexical", "zeroshot"}
    /\ shown = "none"
    /\ metrics = NoMetrics
    /\ OthersIdle

NextHeuristicOnly == Quality \/ Combine \/ Band

SpecHeuristicOnly == InitHeuristicOnly /\ [][NextHeuristicOnly]_vars

---------------------------------------------------------------------------
(* predict_proba_content_only, for every answer of the two classifiers. *)

InitContentOnly ==
    /\ pc = "content_lexical"
    /\ Fresh
    /\ ContentOnlyIdle
    /\ TrendsIdle
    /\ FactCheckIdle
    /\ RatingIdle

NextContentOnly == ContentLexical \/ ContentZeroShot \/ ContentReturn

SpecContentOnly == InitContentOnly /\ [][NextContentOnly]_vars

---------------------------------------------------------------------------
(* The trends dashboard rendered again and again as time passes. *)

InitTrends ==
    /\ pc = "trends_render"
    /\ Fresh
    /\ ContentOnlyIdle
    /\ now = 0
    /\ cache_key = Unset
    /\ trends_cache = {}
    /\ keys_to_remove = {}
    /\ cached_data = NoEntry
    /\ articles = Unset
    /\ renders = 1
    /\ FactCheckIdle
    /\ RatingIdle

NextTrends ==
    \/ TrendsKey
    \/ TrendsClear
    \/ TrendsLookup
    \/ TrendsFetch
    \/ TrendsRerun

SpecTrends == InitTrends /\ [][NextTrends]_vars

---------------------------------------------------------------------------
(* fact_check_claims_long_article on every article and max_claims of the  *)
(* model.                                                                  *)

InitFactCheck ==
    /\ pc = "factcheck_start"
    /\ Fresh
    /\ ContentOnlyIdle
    /\ TrendsIdle
    /\ article \in Articles
    /\ max_claims \in 0..MaxClaims
    /\ sentences = << >>
    /\ selected_claims = << >>
    /\ results = << >>
    /\ searches = << >>
    /\ all_hits = 0
    /\ google_hits = 0
    /\ RatingIdle

NextFactCheck ==
    \/ FactCheckStart
    \/ FactCheckGoogle
    \/ FactCheckManual
    \/ FactCheckHeuristic
    \/ FactCheckAppend

SpecFactCheck == InitFactCheck /\ [][NextFactCheck]_vars

---------------------------------------------------------------------------
(* normalize_factcheck_rating on every rating of the model. *)

InitRating ==
    /\ pc = "rating"
    /\ Fresh
    /\ ContentOnlyIdle
    /\ TrendsIdle
    /\ FactCheckIdle
    /\ rating \in Ratings
    /\ normalized = ""

NextRating == NormalizeRating

SpecRating == InitRating /\ [][NextRating]_vars

---------------------------------------------------------------------------
(* Properties.  Each is written from the statement it checks, in terms of  *)
(* the state only: comparisons with hundredths are cross-multiplied        *)
(* (100 * p >= 70 * One for p >= 0.70).                                    *)

\* The run has a returned probability that came out of the combiner.
Combined == proba # Unset /\ quality_score # Unset

\* C1: the combiner output is ((ensemble + quality) / 2) clamped to
\* [0.01, 0.99], where ensemble is 0.7 base + 0.3 zeroshot when
\* |base - zeroshot| < 0.2 and 0.4 base + 0.3 zeroshot + 0.3 quality
\* otherwise, a difference of exactly 0.2 counting as disagreement.
C1_CombinerFormula ==
    Combined =>
        LET agreement == IF base_proba >= zs_proba
                         THEN base_proba - zs_proba
                         ELSE zs_proba - base_proba
            ensemble10 == IF 5 * agreement < One
                          THEN 7 * base_proba + 3 * zs_proba
                          ELSE 4 * base_proba + 3 * zs_proba
                                 + 3 * quality_score
            final20 == ensemble10 + 10 * quality_score
        IN  IF 5 * final20 < One THEN 100 * proba = One
            ELSE IF 5 * final20 > 99 * One THEN 100 * proba = 99 * One
            ELSE 20 * proba = final20

\* A finished run whose two signals differ by exactly 0.2 and whose quality
\* differs from the lexical signal, so that the two branches give
\* different results.
C1_Witness ==
    /\ pc = "done"
    /\ Combined
    /\ 5 * (base_proba - zs_proba) = One
    /\ quality_score # base_proba

\* C2: every probability _predict_proba_ensemble returns lies in
\* [0.01, 0.99], whatever the text and the classifiers' outcomes.
C2_ProbaInRange ==
    proba # Unset => (One <= 100 * proba /\ 100 * proba <= 99 * One)

\* A returned probability whose unclamped value lies below 0.01.
C2_Witness ==
    /\ Combined
    /\ 100 * final_proba(base_proba, zs_proba, quality_score) < One

\* C3 as stated: raising the lexical signal, the other two held fixed,
\* never lowers the combiner output.
C3_Monotone ==
    Combined =>
        \A lower \in Grid :
            lower <= base_proba =>
                Combiner(lower, zs_proba, quality_score) <= proba

\* C3 amended: raising the lexical signal never lowers the combiner output
\* as long as both values of the signal are on the same side of the
\* agreement test (both within 0.2 of the zero-shot signal, or both not).
C3_MonotoneWithinBranch ==
    Combined =>
        \A lower \in Grid :
            ( /\ lower <= base_proba
              /\ (5 * abs(lower - zs_proba) < One)
                   <=> (5 * abs(base_proba - zs_proba) < One) )
            => Combiner(lower, zs_proba, quality_score) <= proba

\* A result that is strictly above the result for a lower lexical signal,
\* both signals within 0.2 of the zero-shot signal.
C3_Witness ==
    /\ pc = "done"
    /\ Combined
    /\ 5 * abs(base_proba - zs_proba) < One
    /\ \E lower \in Grid :
         /\ lower < base_proba
         /\ 5 * abs(lower - zs_proba) < One
         /\ Combiner(lower, zs_proba, quality_score) < proba

C5_BandingTable ==
    verdict # "" =>
        /\ (100 * proba >= 70 * One) =>
              (verdict = "Likely Real" /\ verdict_confidence = "High")
        /\ (55 * One <= 100 * proba /\ 100 * proba < 70 * One) =>
              (verdict = "Possibly Real" /\ verdict_confidence = "Medium")
        /\ (45 * One <= 100 * proba /\ 100 * proba < 55 * One) =>
              (verdict = "Uncertain" /\ verdict_confidence = "Low")
        /\ (30 * One <= 100 * proba /\ 100 * proba < 45 * One) =>
              (verdict = "Possibly Fake" /\ verdict_confidence = "Medium")
        /\ (100 * proba < 30 * One) =>
              (verdict = "Likely Fake" /\ verdict_confidence = "High")

\* A combiner result of exactly 0.55, banded Possibly Real.
C5_Witness ==
    /\ pc = "done"
    /\ Combined
    /\ 100 * proba = 55 * One
    /\ verdict = "Possibly Real"

\* The five bands of the table, in hundredths: lo inclusive, hi exclusive.
C6_Bands ==
    { [lo |-> 70, hi |-> 101, verdict |-> "Likely Real", certainty |-> "High"],
      [lo |-> 55, hi |-> 70, verdict |-> "Possibly Real",
       certainty |-> "Medium"],
      [lo |-> 45, hi |-> 55, verdict |-> "Uncertain", certainty |-> "Low"],
      [lo |-> 30, hi |-> 45, verdict |-> "Possibly Fake",
       certainty |-> "Medium"],
      [lo |-> 0, hi |-> 30, verdict |-> "Likely Fake", certainty |-> "High"] }

\* C6: every probability of [0, 1] lies in exactly one band, and the
\* verdict and the certainty shown are that band's, whatever else the run
\* holds.
C6_Partition ==
    verdict # "" =>
        LET mine == { b \in C6_Bands :
                        b.lo * One <= 100 * proba /\ 100 * proba < b.hi * One }
        IN  /\ Cardinality(mine) = 1
            /\ \A b \in mine :
                 verdict = b.verdict /\ verdict_confidence = b.certainty
            /\ Cardinality({ b \in C6_Bands : b.verdict = verdict }) = 1

\* A probability below anything the combiner returns, banded all the same.
C6_Witness ==
    /\ pc = "done"
    /\ proba = 0
    /\ verdict = "Likely Fake"
    /\ verdict_confidence = "High"

\* C7 as stated: the percentage is 100 * d rounded half-up, d being p when
\* p > 0.5 and 1 - p otherwise.
C7_RoundsHalfUp ==
    confidence_percentage # Unset =>
        LET d == IF 2 * proba > One THEN proba ELSE One - proba
        IN  confidence_percentage = (200 * d + One) \div (2 * One)

\* C7 amended: the percentage is 100 * d rounded down.
C7_RoundsDown ==
    confidence_percentage # Unset =>
        LET d == IF 2 * proba > One THEN proba ELSE One - proba
        IN  /\ confidence_percentage * One <= 100 * d
            /\ 100 * d < (confidence_percentage + 1) * One

\* A probability of the low half whose percentage has a fraction of at
\* least one half, which is dropped.
C7_Witness ==
    /\ pc = "done"
    /\ Combined
    /\ 2 * proba < One
    /\ 200 * (One - proba) >= (2 * confidence_percentage + 1) * One

\* C8: on a text shorter than 10 characters after trimming, the empty text
\* included, _predict_proba_ensemble returns exactly 0.5 and calls neither
\* classifier nor the quality heuristic, and 0.5 is banded Uncertain.
C8_ShortTextNeutral ==
    ( /\ "_predict_proba_ensemble" \in calls
      /\ BodyLen(combined_text.body) < 10 )
    => /\ 2 * proba = One
       /\ calls \cap {"lexical", "zeroshot", "_assess_content_quality"} = {}
       /\ base_proba = Unset /\ zs_proba = Unset /\ quality_score = Unset
       /\ pc \in {"band", "display", "done"}
       /\ pc \in {"display", "done"} => verdict = "Uncertain"

\* A text of 9 characters with whitespace around it, scored and banded.
C8_Witness ==
    /\ pc = "done"
    /\ "_predict_proba_ensemble" \in calls
    /\ combined_text.ws > 0
    /\ BodyLen(combined_text.body) = 9
    /\ verdict = "Uncertain"

\* C9: a classifier's exception never leaves _predict_proba_ensemble; a
\* failed signal, and a zero-shot answer without the label, count as 0.5;
\* and the function still returns a probability in [0.01, 0.99].
C9_FailuresAbsorbed ==
    /\ pc # "raised"
    /\ lexical_out.raised => 2 * base_proba = One
    /\ ("zeroshot" \in calls /\ ~zeroshot_out.has_label) => 2 * zs_proba = One
    /\ ( /\ pc = "done"
         /\ (lexical_out.raised \/ zeroshot_out.raised
               \/ ("zeroshot" \in calls /\ ~zeroshot_out.has_label)) )
       => (One <= 100 * proba /\ 100 * proba <= 99 * One)

\* A finished run in which both classifiers raised.
C9_Witness ==
    /\ pc = "done"
    /\ lexical_out.raised
    /\ zeroshot_out.raised
    /\ proba # Unset
    /\ shown = "verdict"

\* C10: the gate runs before the scorer; on opinion content the scorer is
\* not called, no classifier runs, no probability exists and the page
\* shows Opinion / Not Applicable / N/A; a verdict is shown only after the
\* gate answered False.
C10_GateBeforeScoring ==
    LET opinion == is_opinion_piece(combined_text, effective_source_url)
    IN  /\ "_predict_proba_ensemble" \in calls =>
              ("is_opinion_piece" \in calls /\ ~opinion)
        /\ ("is_opinion_piece" \in calls /\ opinion) =>
              /\ calls = {"is_opinion_piece"}
              /\ proba = Unset /\ verdict = ""
              /\ pc = "done"
              /\ shown = "opinion"
              /\ metrics = << "Opinion", "Not Applicable", "N/A" >>
        /\ shown = "verdict" => ("is_opinion_piece" \in calls /\ ~opinion)
        /\ shown = "opinion" => opinion

\* A finished submission stopped by the gate.
C10_Witness ==
    /\ pc = "done"
    /\ shown = "opinion"
    /\ "is_opinion_piece" \in calls
    /\ combined_text # EmptyStr

---------------------------------------------------------------------------
(* The opinion gate as a function of the text and the URL. *)

\* is_opinion_piece has answered for combined_text and effective_source_url.
Gated == "is_opinion_piece" \in calls

\* The phrases of the subjective list found in the text, whatever their case.
SubjectiveFound ==
    UNION { ChunkInfo(LowerOf(combined_text.body[i])).subjective :
              i \in 1..Len(combined_text.body) }

\* C11: a text holding at least two distinct phrases of the subjective
\* list, in any case and anywhere in the text, is detected as opinion
\* whatever the URL.
C11_TwoSubjectivePhrases ==
    Gated =>
        ( (\E a \in SubjectiveFound, b \in SubjectiveFound : a # b)
          => shown = "opinion" /\ pc = "done" )

\* Two phrases, one of them capitalised, no URL and nothing the marker
\* pattern matches: the phrases alone make the text an opinion piece.
C11_Witness ==
    /\ Gated
    /\ effective_source_url = NoUrl
    /\ \E i \in 1..Len(combined_text.body) : combined_text.body[i] = "I think"
    /\ \E i \in 1..Len(combined_text.body) : combined_text.body[i] = "i feel"
    /\ \A i \in 1..Len(combined_text.body) :
         combined_text.body[i] \in {"I think", "i feel", "ok"}
    /\ shown = "opinion"

\* C12: a URL whose path has a whole segment equal to a marker, in first,
\* middle or last place, is detected as opinion whatever the text.
C12_MarkerSegmentAnywhere ==
    Gated =>
        ( (\E i \in 1..Len(effective_source_url.path) :
              effective_source_url.path[i] \in markers)
          => shown = "opinion" /\ pc = "done" )

\* C13: a marker standing as a whole word among the first 40 words of the
\* lower-cased text makes it an opinion piece, with no URL and no
\* subjective phrase needed.
C13_MarkerWordInFirstWords ==
    Gated =>
        ( (\E i \in 1..Len(combined_text.body) :
              /\ ChunkInfo(LowerOf(combined_text.body[i])).marker_word
              /\ FirstWordOf(combined_text.body, i) <= 40)
          => shown = "opinion" /\ pc = "done" )

---------------------------------------------------------------------------
(* The quality heuristic as a function of the text.  In indicator_list the *)
(* length indicator comes first, the sentence indicator second when there  *)
(* is one, and source, quotes, specificity, red flags and emotional        *)
(* language last, in that order.                                           *)

\* _assess_content_quality has returned for combined_text.
Scored == "_assess_content_quality" \in calls

\* What the three detectors of the specificity indicator find in the text.
DetectorsPresent ==
    { d \in {"dates", "numbers", "proper_nouns"} :
        \/ d = "dates" /\ AnyChunk(combined_text.body, "dates")
        \/ d = "numbers" /\ AnyChunk(combined_text.body, "numbers")
        \/ d = "proper_nouns"
             /\ SumChunks(combined_text.body, "proper_nouns") > 2 }

\* C14: the specificity indicator is 0.9 with all three detectors present,
\* 0.7 with exactly two of them, whichever two, 0.6 with exactly one and
\* 0.3 with none.
C14_SpecificityByCount ==
    Scored =>
        indicator_list[Len(indicator_list) - 2] =
            CASE Cardinality(DetectorsPresent) = 3 -> 9
              [] Cardinality(DetectorsPresent) = 2 -> 7
              [] Cardinality(DetectorsPresent) = 1 -> 6
              [] Cardinality(DetectorsPresent) = 0 -> 3

\* Occurrences of words of the emotional list in the text, repeats
\* included: no literal of the model holds more than one.
EmotionalOccurrences ==
    Cardinality({ i \in 1..Len(combined_text.body) :
                    ChunkInfo(LowerOf(combined_text.body[i])).emotional # {} })

\* C15: the emotional-language indicator is 0.8 for no occurrence of a
\* listed word, 0.6 for one or two occurrences and 0.2 for three or more,
\* every occurrence counted.
C15_EmotionalByOccurrences ==
    Scored =>
        indicator_list[Len(indicator_list)] =
            IF EmotionalOccurrences = 0 THEN 8
            ELSE IF EmotionalOccurrences <= 2 THEN 6
            ELSE 2

\* C16: the length indicator is 0.8 for 50 to 2000 words, 0.6 for 20 to 49
\* and for 2001 to 3000 words, and 0.3 for fewer than 20 or more than 3000.
C16_LengthTable ==
    Scored =>
        LET n == word_count(combined_text)
        IN  /\ (50 <= n /\ n <= 2000) => indicator_list[1] = 8
            /\ ((20 <= n /\ n < 50) \/ (2000 < n /\ n <= 3000))
                  => indicator_list[1] = 6
            /\ (n < 20 \/ n > 3000) => indicator_list[1] = 3

\* Exactly 2000 words, the last count that still scores 0.8.
C16_Witness ==
    /\ Scored
    /\ word_count(combined_text) = 2000
    /\ indicator_list[1] = 8

\* The text holds a sentence terminator.
HasTerminator ==
    \E i \in 1..Len(combined_text.body) :
        ChunkInfo(combined_text.body[i]).terminators > 0

\* C17: with a sentence terminator in the text the sentence indicator is
\* 0.8 for 10 to 30 words per sentence and 0.5 otherwise, and the score is
\* the mean of seven indicators; without one the indicator is left out and
\* the score is the mean of six.
C17_SentenceIndicator ==
    Scored =>
        IF HasTerminator
        THEN /\ Len(indicator_list) = 7
             /\ LET w == word_count(combined_text)
                    n == sentence_count(combined_text)
                IN  indicator_list[2] =
                        IF 10 * n <= w /\ w <= 30 * n THEN 8 ELSE 5
             /\ 70 * quality_score = SumSeq(indicator_list) * One
        ELSE /\ Len(indicator_list) = 6
             /\ 60 * quality_score = SumSeq(indicator_list) * One

\* A text of words without a terminator: six indicators, none of them the
\* 0.5 or 0.8 of the sentence test in second place.
C17_Witness ==
    /\ Scored
    /\ combined_text # EmptyStr
    /\ ~HasTerminator
    /\ Len(indicator_list) = 6
    /\ indicator_list[2] = 9

\* C18: on the empty string the heuristic raises nothing and returns 0.5,
\* the mean of 0.3, 0.4, 0.5, 0.3, 0.7 and 0.8.
C18_EmptyString ==
    (Scored /\ combined_text = EmptyStr) =>
        /\ pc # "raised"
        /\ indicator_list = << 3, 4, 5, 3, 7, 8 >>
        /\ 2 * quality_score = One

\* The heuristic has returned for the empty string.
C18_Witness ==
    /\ Scored
    /\ combined_text = EmptyStr
    /\ pc = "combine"
    /\ 2 * quality_score = One

\* C19: the score lies in [0, 1] and is the arithmetic mean of the computed
\* indicators, each of which is one of 0.1, 0.2, ..., 0.9.
C19_MeanOfLevels ==
    Scored =>
        /\ \A i \in 1..Len(indicator_list) : indicator_list[i] \in 1..9
        /\ 0 <= quality_score /\ quality_score <= One
        /\ 10 * Len(indicator_list) * quality_score
              = SumSeq(indicator_list) * One

\* A text with a red flag and an attribution: the lowest and the highest
\* level in one list.
C19_Witness ==
    /\ Scored
    /\ \E i \in 1..Len(indicator_list) : indicator_list[i] = 1
    /\ \E i \in 1..Len(indicator_list) : indicator_list[i] = 9

---------------------------------------------------------------------------
(* Worked scenarios and the consistency of what the page shows. *)

\* The run started from the signals 0.8, 0.75, 0.7.
FirstScenario ==
    /\ 100 * base_proba = 80 * One
    /\ 100 * zs_proba = 75 * One
    /\ 100 * quality_score = 70 * One

\* The run started from the signals 0.9, 0.2, 0.3.
SecondScenario ==
    /\ 100 * base_proba = 90 * One
    /\ 100 * zs_proba = 20 * One
    /\ 100 * quality_score = 30 * One

\* C21 as stated: the first scenario ends with 0.7425, Likely Real, High
\* and 74%; the second with 0.375, Possibly Fake and Medium.
C21_ScenariosAsStated ==
    pc = "done" =>
        /\ FirstScenario =>
              /\ 400 * proba = 297 * One
              /\ metrics = << "Likely Real", 74, "High" >>
        /\ SecondScenario =>
              /\ 8 * proba = 3 * One
              /\ verdict = "Possibly Fake"
              /\ verdict_confidence = "Medium"

\* C21 amended: the second scenario ends with 0.405 (the ensemble of the
\* disagreement branch is 0.51), Possibly Fake and Medium.
C21_Scenarios ==
    pc = "done" =>
        /\ FirstScenario =>
              /\ 400 * proba = 297 * One
              /\ metrics = << "Likely Real", 74, "High" >>
        /\ SecondScenario =>
              /\ 200 * proba = 81 * One
              /\ verdict = "Possibly Fake"
              /\ verdict_confidence = "Medium"

\* The second scenario has run to its displayed verdict.
C21_Witness ==
    /\ pc = "done"
    /\ SecondScenario
    /\ shown = "verdict"
    /\ verdict = "Possibly Fake"

\* C24: a submission with a title or an input ends with exactly one result
\* on the page, the opinion notice or a scored verdict, also when the input
\* is a URL whose article could not be fetched and the title is empty.
C24_AlwaysOneResult ==
    (pc = "done" /\ (user_val # NoInput \/ title_text # EmptyStr)) =>
        shown \in {"opinion", "verdict"}

\* C26: for a final probability in [0.01, 0.99] the percentage shown lies
\* between 50 and 99, is at least 70 when the certainty is High and at most
\* 55 when it is Low.
C26_PercentageMatchesCertainty ==
    (pc = "done" /\ shown = "verdict"
       /\ One <= 100 * proba /\ 100 * proba <= 99 * One) =>
        /\ 50 <= confidence_percentage /\ confidence_percentage <= 99
        /\ verdict_confidence = "High" => confidence_percentage >= 70
        /\ verdict_confidence = "Low" => confidence_percentage <= 55

\* Probability 0.45: certainty Low with the highest percentage it allows.
C26_Witness ==
    /\ pc = "done"
    /\ 100 * proba = 45 * One
    /\ verdict_confidence = "Low"
    /\ confidence_percentage = 55

\* C25: with both classifiers unavailable the final probability is
\* (0.5 + quality) / 2 and the verdict is Possibly Real, Uncertain or
\* Possibly Fake, never one of High certainty, whatever score the quality
\* heuristic produces.
C25_HeuristicAloneNeverHigh ==
    (lexical_out.raised /\ zeroshot_out.raised /\ verdict # "") =>
        /\ 2 * base_proba = One /\ 2 * zs_proba = One
        /\ 4 * proba = One + 2 * quality_score
        /\ verdict \in {"Possibly Real", "Uncertain", "Possibly Fake"}
        /\ verdict_confidence # "High"

\* The highest score the heuristic produces: six indicators at their top
\* levels, no sentence indicator.
C25_Witness ==
    /\ lexical_out.raised /\ zeroshot_out.raised
    /\ indicator_list = << 8, 9, 8, 9, 7, 8 >>
    /\ verdict = "Possibly Real"

\* The lowest score the heuristic produces, with its verdict.
C25_LowestScore ==
    /\ lexical_out.raised /\ zeroshot_out.raised
    /\ indicator_list = << 3, 4, 5, 3, 1, 2 >>
    /\ verdict = "Possibly Fake"

---------------------------------------------------------------------------
(* predict_proba_content_only. *)

\* C22: predict_proba_content_only never lets a classifier failure reach
\* its caller: when the lexical or the zero-shot classifier fails, the
\* failed signal is 0.5 and a probability is returned.
C22_NoFailurePropagates ==
    /\ pc # "raised"
    /\ pc = "content_returned" =>
         /\ content_lexical_out.raised => 2 * content_base_proba = One
         /\ content_zeroshot_out.raised => 2 * pz = One
         /\ 0 <= returned /\ returned <= One

\* C23: the value returned is 0.6 * base_proba + 0.4 * pz, brought into
\* [0.005, 0.995]; pz is the score of 'real news', or 0.5 when the label
\* is absent or the zero-shot call failed; the value does not decrease
\* when either signal is raised.
C23_WeightedAndClamped ==
    pc = "content_returned" =>
        /\ pz = IF ~content_zeroshot_out.raised
                   /\ content_zeroshot_out.has_label
                THEN content_zeroshot_out.score
                ELSE One \div 2
        /\ 200 * returned >= One /\ 200 * returned <= 199 * One
        /\ LET tenths == 6 * content_base_proba + 4 * pz
           IN  /\ (One <= 20 * tenths /\ 20 * tenths <= 199 * One) =>
                    10 * returned = tenths
               /\ 20 * tenths < One => 200 * returned = One
               /\ 20 * tenths > 199 * One => 200 * returned = 199 * One
        /\ \A b \in Grid :
             b >= content_base_proba => content_only_proba(b, pz) >= returned
        /\ \A z \in Grid :
             z >= pz => content_only_proba(content_base_proba, z) >= returned

\* Both signals 1.0: the weighted sum 1.0 is cut to 0.995.
C23_Witness ==
    /\ pc = "content_returned"
    /\ content_base_proba = One
    /\ pz = One
    /\ 200 * returned = 199 * One

\* The zero-shot call failed and the lexical signal is 1.0: 0.6 + 0.2.
C23_DefaultUsed ==
    /\ pc = "content_returned"
    /\ content_zeroshot_out.raised
    /\ content_base_proba = One
    /\ 5 * returned = 4 * One

---------------------------------------------------------------------------
(* The trends cache. *)

\* Age of a cache entry, in clock units.
Age(e) == now - e.timestamp

FifteenMinutes == 15 * UnitsPerMinute

C27_LookupHit ==
    /\ pc = "trends_shown"
    /\ cached_data # NoEntry
    /\ Age(cached_data) > 0

\* C28: every entry of the trends cache holds a non-empty article list,
\* and fetch_trending_news is called only when the cache has no entry
\* under the key of the current minute.
C28_OnlyFetchedAndNonEmpty ==
    /\ \A e \in trends_cache : e.data > 0
    /\ pc = "trends_fetch" =>
         ~(\E e \in trends_cache : e.key = now \div UnitsPerMinute)

\* A render whose fetch answered with the empty list, after an earlier
\* render had stored its articles: nothing was stored under the new key.
C28_Witness ==
    /\ pc = "trends_shown"
    /\ cached_data = NoEntry
    /\ articles = 0
    /\ trends_cache # {}
    /\ \A e \in trends_cache : e.key # cache_key

---------------------------------------------------------------------------
(* The fact-check cascade. *)

\* The searches made for the claim a search belongs to, before it.
EarlierSearches(k) ==
    { j \in 1..(k - 1) : searches[j].claim = searches[k].claim }

\* C29: for every selected claim the Google search runs first, the manual
\* search only after a Google search without hits and the heuristic
\* analysis only after both found nothing; the function returns one
\* result per selected claim, at most max_claims of them, and the empty
\* list for an empty text.
C29_CascadeOrder ==
    /\ \A k \in 1..Len(searches) :
         /\ searches[k].search = "google" => EarlierSearches(k) = {}
         /\ searches[k].search = "manual" =>
              /\ EarlierSearches(k) = {k - 1}
              /\ searches[k - 1].search = "google"
              /\ searches[k - 1].hits = 0
         /\ searches[k].search = "heuristic" =>
              /\ EarlierSearches(k) = {k - 2, k - 1}
              /\ searches[k - 2].search = "google"
              /\ searches[k - 2].hits = 0
              /\ searches[k - 1].search = "manual"
              /\ searches[k - 1].hits = 0
    /\ \A i \in 1..Len(results) :
         \E k \in 1..Len(searches) :
            searches[k].claim = i /\ searches[k].search = "google"
    /\ pc = "factcheck_returned" =>
         /\ Len(results) = Len(selected_claims)
         /\ \A i \in 1..Len(results) : results[i].claim = selected_claims[i]
         /\ Len(results) <= max_claims
         /\ article.body = << >> => results = << >>

\* Three candidate sentences and max_claims 2: two results, one claim with
\* a Google hit and nothing else, one that went down to the heuristics.
C29_Witness ==
    /\ pc = "factcheck_returned"
    /\ Len(sentences) = 3
    /\ max_claims = 2
    /\ Len(results) = 2
    /\ \E k \in 1..Len(searches) :
         searches[k].search = "google" /\ searches[k].hits > 0
    /\ \E k \in 1..Len(searches) : searches[k].search = "heuristic"

\* A blank article: no sentence, no search, no result.
C29_EmptyArticle ==
    /\ pc = "factcheck_returned"
    /\ article.body = << >>
    /\ article.ws > 0
    /\ results = << >>

---------------------------------------------------------------------------
(* normalize_factcheck_rating. *)

\* C30: normalize_factcheck_rating always answers 'supports', 'refutes' or
\* 'mixed'; the empty rating gives 'mixed'; a rating equal to a keyword of
\* the negative list gives 'refutes', one equal to a keyword of the
\* positive list 'supports' and one equal to a keyword of the neutral list
\* 'mixed'.
C30_KeywordsMapToTheirList ==
    pc = "rating_returned" =>
        /\ normalized \in {"supports", "refutes", "mixed"}
        /\ rating.word = "" => normalized = "mixed"
        /\ (rating.ws = 0 /\ ~rating.upper) =>
             /\ rating.word \in negative => normalized = "refutes"
             /\ rating.word \in positive => normalized = "supports"
             /\ rating.word \in neutral => normalized = "mixed"

=============================================================================
